---------------------------- MODULE Spec2Model ----------------------------
(***************************************************************************)
(* Winternitz one-time signatures as implemented by wots-rs: 32 hash       *)
(* chains of length 256 over SHA-256, no checksum chains.                  *)
(*                                                                         *)
(* Abstractions.  A 32-byte block is an element of Val.  The number of     *)
(* chains (32 in the source, one per digest byte) is NumChains.  The chain *)
(* length 256 and the byte range 0..255 are kept at their real values.     *)
(* sha256 is an external crate: on blocks it is the state variable sha256, *)
(* one function of HashFns fixed for a whole behaviour; on messages it is  *)
(* the table sha256_msg.                                                   *)
(***************************************************************************)
EXTENDS Integers, Sequences, FiniteSets, TLC

NumChains == 2           \* chains modelled (32 in the source)
MaxVal    == 1           \* block values are 0..MaxVal
NumMsgs   == 4           \* messages are 0..NumMsgs-1

ChainLen  == 256         \* `0..256` and `256 - n as usize`
ByteMax   == 255         \* largest u8

Chains == 0 .. (NumChains - 1)
Val    == 0 .. MaxVal
Msgs   == 0 .. (NumMsgs - 1)
Bytes  == 0 .. ByteMax
Arrays == [Chains -> Val]            \* the values of [[u8; 32]; 32]

(***************************************************************************)
(* sha256 on 32-byte blocks.  Three functions of different shape stand for *)
(* it: a permutation without fixed point (no two blocks collide), the      *)
(* identity (every block is a fixed point), and a collapsing function      *)
(* (blocks 0 and 1 collide, every chain ends in the fixed point 0).        *)
(***************************************************************************)
HashFns ==
    { [x \in Val |-> (x + 1) % (MaxVal + 1)],
      [x \in Val |-> x],
      [x \in Val |-> IF x = 0 THEN 0 ELSE x - 1] }

(***************************************************************************)
(* sha256 on messages, as the bytes hash[i] that sign and verify read.     *)
(* Message m has the digest whose byte i is the i-th base-3 digit of m,    *)
(* taken from DigestBytes.                                                 *)
(***************************************************************************)
DigestBytes == <<0, 255, 1>>

RECURSIVE Pow(_, _)
Pow(b, e) == IF e = 0 THEN 1 ELSE b * Pow(b, e - 1)

Digests ==
    [message \in Msgs |->
        [i \in Chains |->
            DigestBytes[((message \div Pow(Len(DigestBytes), i)) % Len(DigestBytes)) + 1]]]

sha256_msg(message) == Digests[message]

VARIABLES
    sha256,     \* sha256 restricted to blocks
    holder,     \* what the signer holds: a Keypair, or the two keys apart
    secret,     \* the SecretKey in use, or None
    public,     \* the PublicKey in use, or None
    issued,     \* the signatures released so far, with their messages
    last        \* the last operation and what it returned

vars == <<sha256, holder, secret, public, issued, last>>

None == [ty |-> "None"]

(***************************************************************************)
(* `for _ in 0..hi { s = sha256(&s) }`, from iteration k on: the block     *)
(* after the loop and the number of sha256 calls the loop made.  The       *)
(* iterations k..hi-1 are run as k..mid-1 followed by mid..hi-1, and the   *)
(* first part is evaluated before the second starts (TLC evaluates         *)
(* operator arguments lazily, and 256 pending applications of sha256       *)
(* exhaust its stack).                                                     *)
(***************************************************************************)
RECURSIVE Loop(_, _, _, _, _)
Loop(f, s, k, hi, calls) ==
    IF k >= hi THEN [val |-> s, calls |-> calls]
    ELSE IF hi = k + 1 THEN [val |-> f[s], calls |-> calls + 1]
    ELSE LET mid   == (k + hi) \div 2
             first == Loop(f, s, k, mid, calls)
         IN  IF first.calls = calls + (mid - k)
             THEN Loop(f, first.val, mid, hi, first.calls)
             ELSE first

\* The loop's results for every hash, start block and bound, computed once.
LoopTable ==
    [f \in HashFns |-> [s \in Val |-> [hi \in 0 .. ChainLen |-> Loop(f, s, 0, hi, 0)]]]

Iterate(s, hi) == LoopTable[sha256][s][hi]

RECURSIVE SumCalls(_, _)
SumCalls(run, i) ==
    IF i = NumChains THEN 0 ELSE run[i].calls + SumCalls(run, i + 1)

Calls(run) == SumCalls(run, 0)


(***************************************************************************)
(* The three value types: tuple structs around one [[u8; 32]; 32].         *)
(***************************************************************************)
\* Mutant: the blocks are stored in reverse order.
Signature_from_reversed(key) ==
    [ty |-> "Signature", f0 |-> [i \in Chains |-> key[NumChains - 1 - i]]]

Signature_from(key) == [ty |-> "Signature", f0 |-> key]

Signature_to_bytes(self) == self.f0

SecretKey_from(value) == [ty |-> "SecretKey", f0 |-> value]

SecretKey_to_bytes(self) == self.f0

PublicKey_from(value) == [ty |-> "PublicKey", f0 |-> value]

PublicKey_to_bytes(self) == self.f0

Signatures == { Signature_from(a) : a \in Arrays }

Vals(run) == [i \in Chains |-> run[i].val]

(***************************************************************************)
(* The random source: csprng[i] is what the i-th fill_bytes call writes.   *)
(***************************************************************************)
Csprngs == [Chains -> Val]

(***************************************************************************)
(* secret.rs                                                               *)
(***************************************************************************)
SecretKey_generate(csprng) ==
    LET secret_key == [i \in Chains |-> csprng[i]]
    IN  [ty |-> "SecretKey", f0 |-> secret_key]

\* Mutant: the subtraction is done in u8, `(256 - n as usize) as u8`.
SecretKey_sign_count_u8(n) == (ChainLen - n) % (ByteMax + 1)

\* `256 - n as usize`: the cast binds tighter than the subtraction, which is
\* done in usize.
SecretKey_sign_count(n) == ChainLen - n

\* Mutant: every chain is iterated the full 256 times.
SecretKey_sign_run_full(self, message) ==
    LET secret_key == self.f0
    IN  [i \in Chains |-> LET key == secret_key[i] IN Iterate(key, ChainLen)]

\* The inner loop of sign for every chain i.
SecretKey_sign_run(self, message) ==
    LET secret_key == self.f0
        hash       == sha256_msg(message)
    IN  [i \in Chains |->
            LET key == secret_key[i]
                n   == hash[i]
            IN  Iterate(key, SecretKey_sign_count(n))]

\* Mutant: the blocks are collected in reverse order.
SecretKey_sign_reversed(self, message) ==
    LET run == SecretKey_sign_run(self, message)
    IN  Signature_from([i \in Chains |-> run[NumChains - 1 - i].val])

SecretKey_sign(self, message) ==
    Signature_from(Vals(SecretKey_sign_run(self, message)))

(***************************************************************************)
(* public.rs                                                               *)
(***************************************************************************)
\* Mutant: one iteration too many, `0..=n`.
PublicKey_verify_count_inclusive(n) == n + 1

\* `n as usize`
PublicKey_verify_count(n) == n

\* Mutant: every chain reads the first digest byte, `hash[0]`.
PublicKey_verify_run_first_byte(self, message, signature) ==
    LET sig  == Signature_to_bytes(signature)
        hash == sha256_msg(message)
    IN  [i \in Chains |->
            LET s == sig[i]
                n == hash[0]
            IN  Iterate(s, PublicKey_verify_count(n))]

\* The inner loop of verify for every chain i.
PublicKey_verify_run(self, message, signature) ==
    LET sig  == Signature_to_bytes(signature)
        hash == sha256_msg(message)
    IN  [i \in Chains |->
            LET s == sig[i]
                n == hash[i]
            IN  Iterate(s, PublicKey_verify_count(n))]

\* Mutant: only the first block is compared.
PublicKey_verify_first_block(self, message, signature) ==
    LET public_key == Vals(PublicKey_verify_run(self, message, signature))
    IN  self.f0[0] = public_key[0]

PublicKey_verify(self, message, signature) ==
    LET public_key == Vals(PublicKey_verify_run(self, message, signature))
    IN  self.f0 = public_key

\* Mutant: one iteration short, `0..255`.
PublicKey_from_secret_run_short(value) ==
    LET bytes == SecretKey_to_bytes(value)
    IN  [i \in Chains |-> LET skey == bytes[i] IN Iterate(skey, ChainLen - 1)]

\* impl From<&SecretKey> for PublicKey
PublicKey_from_secret_run(value) ==
    LET bytes == SecretKey_to_bytes(value)
    IN  [i \in Chains |-> LET skey == bytes[i] IN Iterate(skey, ChainLen)]

PublicKey_from_secret(value) ==
    [ty |-> "PublicKey", f0 |-> Vals(PublicKey_from_secret_run(value))]

(***************************************************************************)
(* keypair.rs                                                              *)
(***************************************************************************)
Keypair_generate_run(csprng) ==
    LET secret_key == [i \in Chains |-> csprng[i]]
    IN  [i \in Chains |-> LET skey == secret_key[i] IN Iterate(skey, ChainLen)]

Keypair_generate(csprng) ==
    LET secret_key == [i \in Chains |-> csprng[i]]
        public_key == Vals(Keypair_generate_run(csprng))
    IN  [secret |-> SecretKey_from(secret_key),
         public |-> PublicKey_from(public_key)]

\* Mutant: `255 - n` iterations.
Keypair_sign_run_short(self, message) ==
    LET secret_key == SecretKey_to_bytes(self.secret)
        hash       == sha256_msg(message)
    IN  [i \in Chains |->
            LET skey == secret_key[i]
                n    == hash[i]
            IN  Iterate(skey, ByteMax - n)]

Keypair_sign_run(self, message) ==
    LET secret_key == SecretKey_to_bytes(self.secret)
        hash       == sha256_msg(message)
    IN  [i \in Chains |->
            LET skey == secret_key[i]
                n    == hash[i]
            IN  Iterate(skey, ChainLen - n)]

Keypair_sign(self, message) ==
    Signature_from(Vals(Keypair_sign_run(self, message)))

Keypair_verify_run(self, message, signature) ==
    LET sig  == Signature_to_bytes(signature)
        hash == sha256_msg(message)
    IN  [i \in Chains |->
            LET s == sig[i]
                n == hash[i]
            IN  Iterate(s, n)]

Keypair_verify(self, message, signature) ==
    LET pkey == Vals(Keypair_verify_run(self, message, signature))
    IN  self.public = PublicKey_from(pkey)

(***************************************************************************)
(* The callers.  A behaviour is one run of the scheme: a key is generated, *)
(* either as a Keypair or as a SecretKey from which the PublicKey is then  *)
(* derived; any messages are signed with it, any number of times; and the  *)
(* run ends with the verification of some signature for some message.  A   *)
(* caller that holds a Keypair goes through its methods, a caller that     *)
(* holds the two keys apart through theirs.                                *)
(***************************************************************************)
NoMsg == 0 - 1

\* What an operation is recorded as: its message and signature, the result
\* of a verify (ok), whether a sign was for a message signed before (again),
\* and the sha256 calls its loops made (calls).
Op(op, msg, sig, ok, again, calls) ==
    [op |-> op, msg |-> msg, sig |-> sig, ok |-> ok, again |-> again,
     calls |-> calls]

Released(message, signature, calls) ==
    [msg |-> message, sig |-> signature, calls |-> calls]

Signed(message) == \E r \in issued : r.msg = message

Init ==
    /\ sha256 \in HashFns
    /\ holder = "nobody"
    /\ secret = None
    /\ public = None
    /\ issued = {}
    /\ last = Op("new", NoMsg, None, FALSE, FALSE, 0)

KeypairGenerate(csprng) ==
    /\ holder = "nobody"
    /\ holder' = "Keypair"
    /\ LET keypair == Keypair_generate(csprng)
       IN  /\ secret' = keypair.secret
           /\ public' = keypair.public
    /\ last' = Op("generate", NoMsg, None, FALSE, FALSE,
                  Calls(Keypair_generate_run(csprng)))
    /\ UNCHANGED <<sha256, issued>>

SecretGenerate(csprng) ==
    /\ holder = "nobody"
    /\ holder' = "keys"
    /\ secret' = SecretKey_generate(csprng)
    /\ last' = Op("seed", NoMsg, None, FALSE, FALSE, 0)
    /\ UNCHANGED <<sha256, public, issued>>

PublicFromSecret ==
    /\ holder = "keys"
    /\ public = None
    /\ public' = PublicKey_from_secret(secret)
    /\ last' = Op("generate", NoMsg, None, FALSE, FALSE,
                  Calls(PublicKey_from_secret_run(secret)))
    /\ UNCHANGED <<sha256, holder, secret, issued>>

\* Mutant: signing replaces the secret key by the chain values it released.
SecretSign_consuming(message) ==
    /\ holder = "keys"
    /\ public # None
    /\ last.op # "verify"
    /\ LET signature == SecretKey_sign(secret, message)
           calls     == Calls(SecretKey_sign_run(secret, message))
       IN  /\ issued' = issued \cup {Released(message, signature, calls)}
           /\ last' = Op("sign", message, signature, FALSE, Signed(message), calls)
           /\ secret' = SecretKey_from(Signature_to_bytes(signature))
    /\ UNCHANGED <<sha256, holder, public>>

SecretSign(message) ==
    /\ holder = "keys"
    /\ public # None
    /\ last.op # "verify"
    /\ LET signature == SecretKey_sign(secret, message)
           calls     == Calls(SecretKey_sign_run(secret, message))
       IN  /\ issued' = issued \cup {Released(message, signature, calls)}
           /\ last' = Op("sign", message, signature, FALSE, Signed(message), calls)
    /\ UNCHANGED <<sha256, holder, secret, public>>

KeypairSign(message) ==
    /\ holder = "Keypair"
    /\ last.op # "verify"
    /\ LET keypair   == [secret |-> secret, public |-> public]
           signature == Keypair_sign(keypair, message)
           calls     == Calls(Keypair_sign_run(keypair, message))
       IN  /\ issued' = issued \cup {Released(message, signature, calls)}
           /\ last' = Op("sign", message, signature, FALSE, Signed(message), calls)
    /\ UNCHANGED <<sha256, holder, secret, public>>

PublicVerify(message, signature) ==
    /\ holder = "keys"
    /\ public # None
    /\ last.op # "verify"
    /\ last' = Op("verify", message, signature,
                  PublicKey_verify(public, message, signature), FALSE,
                  Calls(PublicKey_verify_run(public, message, signature)))
    /\ UNCHANGED <<sha256, holder, secret, public, issued>>

KeypairVerify(message, signature) ==
    /\ holder = "Keypair"
    /\ last.op # "verify"
    /\ LET keypair == [secret |-> secret, public |-> public]
       IN  last' = Op("verify", message, signature,
                      Keypair_verify(keypair, message, signature), FALSE,
                      Calls(Keypair_verify_run(keypair, message, signature)))
    /\ UNCHANGED <<sha256, holder, secret, public, issued>>

Next ==
    \/ \E csprng \in Csprngs : KeypairGenerate(csprng)
    \/ \E csprng \in Csprngs : SecretGenerate(csprng)
    \/ PublicFromSecret
    \/ \E message \in Msgs : SecretSign(message)
    \/ \E message \in Msgs : KeypairSign(message)
    \/ \E message \in Msgs, signature \in Signatures : PublicVerify(message, signature)
    \/ \E message \in Msgs, signature \in Signatures : KeypairVerify(message, signature)

Spec == Init /\ [][Next]_vars


(***************************************************************************)
(* Vocabulary of the properties.                                           *)
(***************************************************************************)
Verified  == last.op = "verify"

\* The releases of the message the last operation was about.
ReleasesOf(message) == { r \in issued : r.msg = message }

\* hash^n(block), as any holder of the block can compute it.
HashPow(block, n) == Iterate(block, n).val

Max(a, b) == IF a >= b THEN a ELSE b

RECURSIVE SumOver(_, _)
SumOver(f, i) == IF i = NumChains THEN 0 ELSE f[i] + SumOver(f, i + 1)

\* C1: verifying a released signature with the message it was made for and
\* the public key of the signing secret key returns true, whatever the
\* digest bytes.
C1_RoundTrip ==
    Verified =>
        \A r \in ReleasesOf(last.msg) : (r.sig = last.sig) => (last.ok = TRUE)

C1_Witness ==
    /\ Verified
    /\ holder = "keys"
    /\ \E r \in ReleasesOf(last.msg) : r.sig = last.sig
    /\ last.ok = TRUE
    /\ \E i, j \in Chains : sha256_msg(last.msg)[i] = 0 /\ sha256_msg(last.msg)[j] = ByteMax
    /\ sha256[0] # 0

\* C2: for every released signature and every chain i, d[i] more hash
\* applications on block i of the signature give block i of the public key,
\* which is the 256-fold hash of seed i.
C2_ChainAlgebra ==
    public # None =>
        /\ \A i \in Chains :
              PublicKey_to_bytes(public)[i] = HashPow(SecretKey_to_bytes(secret)[i], ChainLen)
        /\ \A r \in issued : \A i \in Chains :
              HashPow(Signature_to_bytes(r.sig)[i], sha256_msg(r.msg)[i])
                 = PublicKey_to_bytes(public)[i]

C2_Witness ==
    /\ public # None
    /\ \E r \in issued : \E i \in Chains :
          /\ sha256_msg(r.msg)[i] = 1
          /\ Signature_to_bytes(r.sig)[i] # PublicKey_to_bytes(public)[i]
          /\ Signature_to_bytes(r.sig)[i] # SecretKey_to_bytes(secret)[i]

(***************************************************************************)
(* The forger of C3 sees the public key, two releases a and b, and picks a *)
(* message; it hashes forward the block of the release with the larger     *)
(* digest byte.                                                            *)
(***************************************************************************)
Dominated(message, a, b) ==
    \A i \in Chains :
        sha256_msg(message)[i] <= Max(sha256_msg(a.msg)[i], sha256_msg(b.msg)[i])

Forged(message, a, b) ==
    Signature_from(
        [i \in Chains |->
            LET da == sha256_msg(a.msg)[i]
                db == sha256_msg(b.msg)[i]
                d3 == sha256_msg(message)[i]
            IN  IF da >= db
                THEN HashPow(Signature_to_bytes(a.sig)[i], da - d3)
                ELSE HashPow(Signature_to_bytes(b.sig)[i], db - d3)])

\* C3: a signature forged from two releases of one secret key, for a message
\* whose digest is byte-wise at most the byte-wise maximum of the two
\* released digests, is accepted by verify.
C3_ReuseForgery ==
    Verified =>
        \A a, b \in issued :
            (Dominated(last.msg, a, b) /\ last.sig = Forged(last.msg, a, b))
                => (last.ok = TRUE)

C3_Witness ==
    /\ Verified
    /\ holder = "keys"
    /\ ~Signed(last.msg)
    /\ last.ok = TRUE
    /\ sha256[0] # 0
    /\ \E a, b \in issued :
          /\ Dominated(last.msg, a, b)
          /\ last.sig = Forged(last.msg, a, b)
          /\ last.sig # a.sig
          /\ last.sig # b.sig
          /\ \E i, j \in Chains :
                /\ sha256_msg(a.msg)[i] > sha256_msg(b.msg)[i]
                /\ sha256_msg(a.msg)[j] < sha256_msg(b.msg)[j]

\* Blocks i of two signatures meet after the d[i] hash applications verify
\* makes for the message.
Meet(message, s1, s2) ==
    \A i \in Chains :
        HashPow(Signature_to_bytes(s1)[i], sha256_msg(message)[i])
            = HashPow(Signature_to_bytes(s2)[i], sha256_msg(message)[i])

\* C4 as claimed: every signature that differs from the released one in at
\* least one block is rejected for the released message.
C4_TamperedSignatureRejected ==
    Verified =>
        \A r \in ReleasesOf(last.msg) : (last.sig # r.sig) => (last.ok = FALSE)

\* C4 as amended: a signature that differs from the released one is rejected
\* exactly when some block of it does not meet the released block after d[i]
\* hash applications; a differing block on a chain whose digest byte is 0 is
\* always rejected; verify answers with a boolean.
C4_TamperedSignatureRejectedUnlessCollision ==
    Verified =>
        /\ last.ok \in BOOLEAN
        /\ \A r \in ReleasesOf(last.msg) :
              (last.sig # r.sig) =>
                  /\ (last.ok = FALSE) <=> ~Meet(last.msg, last.sig, r.sig)
                  /\ (\E i \in Chains :
                         /\ sha256_msg(last.msg)[i] = 0
                         /\ Signature_to_bytes(last.sig)[i] # Signature_to_bytes(r.sig)[i])
                     => (last.ok = FALSE)

C4_Witness ==
    /\ Verified
    /\ holder = "keys"
    /\ last.ok = FALSE
    /\ \E r \in ReleasesOf(last.msg) :
          /\ Cardinality({ i \in Chains :
                Signature_to_bytes(last.sig)[i] # Signature_to_bytes(r.sig)[i] }) = 1
          /\ \A i \in Chains :
                Signature_to_bytes(last.sig)[i] # Signature_to_bytes(r.sig)[i]
                    => sha256_msg(last.msg)[i] > 0

\* C5: a released signature presented with a message whose digest differs
\* from the digest of the signed message is rejected, unless on every chain
\* where the digests differ the two verification depths collide (the chain
\* from the signature block has the same value after d[i] and after d'[i]
\* hash applications).
C5_OtherMessageRejected ==
    Verified =>
        \A r \in issued :
            ( /\ r.sig = last.sig
              /\ sha256_msg(r.msg) # sha256_msg(last.msg)
              /\ \E i \in Chains :
                    HashPow(Signature_to_bytes(r.sig)[i], sha256_msg(last.msg)[i])
                        # HashPow(Signature_to_bytes(r.sig)[i], sha256_msg(r.msg)[i]) )
            => (last.ok = FALSE)

C5_Witness ==
    /\ Verified
    /\ holder = "keys"
    /\ last.ok = FALSE
    /\ \E r \in issued :
          /\ r.sig = last.sig
          /\ Cardinality({ i \in Chains :
                sha256_msg(r.msg)[i] # sha256_msg(last.msg)[i] }) = 1
          /\ \E i \in Chains :
                HashPow(Signature_to_bytes(r.sig)[i], sha256_msg(last.msg)[i])
                    # HashPow(Signature_to_bytes(r.sig)[i], sha256_msg(r.msg)[i])

\* C6: every signing of a message with one secret key returns the same
\* signature, earlier signings notwithstanding: a message has one released
\* signature, the one signing with the secret key gives now.
C6_SignDeterministic ==
    /\ \A a, b \in issued : (a.msg = b.msg) => (a.sig = b.sig)
    /\ \A r \in issued : r.sig = SecretKey_sign(secret, r.msg)

C6_Witness ==
    /\ last.op = "sign"
    /\ last.again = TRUE
    /\ Cardinality(issued) >= 2
    /\ \A r \in ReleasesOf(last.msg) : r.sig = last.sig

\* C7: from(a).to_bytes() = a for every array a and from(x.to_bytes()) = x
\* for every key and signature x, for each of the three types, block i
\* staying at index i.
ArraysRoundTrip ==
    \A a \in Arrays :
        /\ SecretKey_to_bytes(SecretKey_from(a)) = a
        /\ PublicKey_to_bytes(PublicKey_from(a)) = a
        /\ Signature_to_bytes(Signature_from(a)) = a
        /\ \A i \in Chains : Signature_to_bytes(Signature_from(a))[i] = a[i]

C7_BytesRoundTrip ==
    /\ ArraysRoundTrip
    /\ secret # None => SecretKey_from(SecretKey_to_bytes(secret)) = secret
    /\ public # None => PublicKey_from(PublicKey_to_bytes(public)) = public
    /\ \A r \in issued : Signature_from(Signature_to_bytes(r.sig)) = r.sig
    /\ Verified => Signature_from(Signature_to_bytes(last.sig)) = last.sig

C7_Witness ==
    /\ Verified
    /\ public # None
    /\ SecretKey_to_bytes(secret)[0] # SecretKey_to_bytes(secret)[NumChains - 1]
    /\ PublicKey_to_bytes(public)[0] # PublicKey_to_bytes(public)[NumChains - 1]
    /\ Signature_to_bytes(last.sig)[0] # Signature_to_bytes(last.sig)[NumChains - 1]
    /\ \E r \in issued :
          Signature_to_bytes(r.sig)[0] # Signature_to_bytes(r.sig)[NumChains - 1]

\* C8: the Keypair's methods return what the methods of its two keys return:
\* generate the secret key of the same random output with the public key
\* derived from it, sign the signature of secret.sign, verify the answer of
\* public.verify.
C8_KeypairFacade ==
    holder = "Keypair" =>
        /\ secret = SecretKey_generate(SecretKey_to_bytes(secret))
        /\ public = PublicKey_from_secret(secret)
        /\ last.op = "sign" => last.sig = SecretKey_sign(secret, last.msg)
        /\ Verified => last.ok = PublicKey_verify(public, last.msg, last.sig)

C8_Witness ==
    /\ holder = "Keypair"
    /\ Verified
    /\ last.ok = TRUE
    /\ \E r \in ReleasesOf(last.msg) :
          r.sig = last.sig /\ r.sig = SecretKey_sign(secret, r.msg)
    /\ public = PublicKey_from_secret(secret)
    /\ sha256[0] # 0

\* The work of the operations, in sha256 calls made by the chain loops.
SignWork(message) == SumOver([i \in Chains |-> ChainLen - sha256_msg(message)[i]], 0)

VerifyWork(message) == SumOver([i \in Chains |-> sha256_msg(message)[i]], 0)

\* C9 as claimed: sign makes the same number of chain steps for every
\* message, and so does verify.
C9_WorkIndependentOfMessage ==
    /\ \A a, b \in issued : a.calls = b.calls
    /\ Verified => \A m \in Msgs :
          last.calls = Calls(PublicKey_verify_run(public, m, last.sig))

\* C9 as amended: generate makes 256 chain steps per chain whatever the
\* seeds; sign makes 256 - d[i] and verify d[i] steps on chain i, at most 256
\* per chain each and 256 per chain together for one message.
C9_WorkFollowsDigest ==
    /\ (last.op = "generate") => (last.calls = ChainLen * NumChains)
    /\ \A r \in issued :
          /\ r.calls = SignWork(r.msg)
          /\ r.calls <= ChainLen * NumChains
    /\ Verified =>
          /\ last.calls = VerifyWork(last.msg)
          /\ last.calls <= ChainLen * NumChains
          /\ \A r \in ReleasesOf(last.msg) : r.calls + last.calls = ChainLen * NumChains

C9_Witness ==
    /\ Verified
    /\ \E a, b \in issued : a.calls # b.calls
    /\ \E r \in ReleasesOf(last.msg) :
          r.calls + last.calls = ChainLen * NumChains /\ last.calls > 0

\* C10: for every digest byte b, sign makes 256 - b hash steps on the chain,
\* a count in 1..256; verify makes b steps, a count in 0..255; the two sum to
\* 256.
CountsOfEveryByte ==
    \A b \in Bytes :
        /\ SecretKey_sign_count(b) = ChainLen - b
        /\ SecretKey_sign_count(b) \in 1 .. ChainLen
        /\ PublicKey_verify_count(b) = b
        /\ PublicKey_verify_count(b) \in 0 .. ByteMax
        /\ SecretKey_sign_count(b) + PublicKey_verify_count(b) = ChainLen

C10_IterationCounts ==
    /\ CountsOfEveryByte
    /\ \A r \in issued : \A i \in Chains :
          LET b == sha256_msg(r.msg)[i]
              n == SecretKey_sign_run(secret, r.msg)[i].calls
          IN  b \in Bytes /\ n = ChainLen - b /\ n >= 1
    /\ Verified => \A i \in Chains :
          LET b == sha256_msg(last.msg)[i]
              n == PublicKey_verify_run(public, last.msg, last.sig)[i].calls
          IN  n = b /\ n + SecretKey_sign_run(secret, last.msg)[i].calls = ChainLen

C10_Witness ==
    /\ Verified
    /\ \E r \in ReleasesOf(last.msg) : \E i, j \in Chains :
          /\ sha256_msg(r.msg)[i] = 0
          /\ SecretKey_sign_run(secret, r.msg)[i].calls = ChainLen
          /\ sha256_msg(r.msg)[j] = ByteMax
          /\ SecretKey_sign_run(secret, r.msg)[j].calls = 1
          /\ PublicKey_verify_run(public, last.msg, last.sig)[j].calls = ByteMax

=============================================================================
